---- MODULE Spec2Model ----
(***************************************************************************)
(* VATpilot integration subsystem: the Shopify OAuth handshake            *)
(* (routes/shopify.js, services/shopify.js), the order synchronisation    *)
(* engine (services/syncService.js, routes/orders.js) and the Lead and    *)
(* Order collections they write (models/Lead.js, models/Order.js).        *)
(*                                                                         *)
(* Every HTTP request occupies one request slot.  A handler is one action *)
(* up to its first await that another request can observe; the awaits of  *)
(* the sync engine (fetch, bulkWrite, countDocuments, findByIdAndUpdate)  *)
(* are separate steps so that requests interleave as they do on the       *)
(* event loop.  Time is counted in minutes.                               *)
(***************************************************************************)
EXTENDS Integers, Sequences, FiniteSets, TLC

\* ---------------------------------------------------------------- bounds
MaxLeads  == 1      \* Lead documents the quiz may create
MaxRemote == 2      \* orders that ever exist in the remote stores
MaxAuth   == 1      \* authorization states handed out by GET /auth
MaxProcs  == 2      \* HTTP requests in flight at the same time
MaxTime   == 11     \* the clock stops advancing here (minutes)
MaxBatch  == 3      \* orders handed to a report engine at once
MaxOwners == 2      \* Connections established for one and the same store

\* ------------------------------------------------------ program constants
StateExpiryMinutes == 10     \* 10 * 60 * 1000 ms
InitialSyncLimit   == 100    \* { limit: 100 } of the callback's first sync
IncrementalLimit   == 100    \* limit: 100 of incrementalSync
DefaultListLimit   == 50     \* limit = 50 of GET /shopify/orders/:leadId

Null       == "null"         \* null / undefined string-valued field
NoDate     == -1             \* null / undefined Date or timestamp
NoLeadId   == 0              \* leadId: null
BadLeadId  == -2             \* a leadId that is not an ObjectId (CastError)

LeadIds    == 1..MaxLeads
Procs      == 1..MaxProcs
Shops      == {"s1.myshopify.com", "s2.myshopify.com"}
MerchantShops == {"s1.myshopify.com"}     \* the stores the dashboard's merchants own
ClientSecret == "SHOPIFY_API_SECRET"
GrantedScope == "read_orders,read_assigned_fulfillment_orders"

\* the clock advances by amounts that straddle the expiry window
TickSteps  == {StateExpiryMinutes - 1, StateExpiryMinutes, StateExpiryMinutes + 1}

VARIABLES
  now,        \* Date.now(), in minutes
  leads,      \* the Lead collection: id -> document, or NoLead
  orders,     \* the Order collection: sequence of documents
  remote,     \* the orders held by the remote stores
  issued,     \* state tokens handed to browsers by GET /auth
  nonceCtr,   \* number of nonces generateState() has produced
  consumed,   \* the nonces of the callbacks that passed the state and HMAC checks
  settled,    \* the lead and window of the last successful sync, while nothing has changed since
  req,        \* request slot -> the request whose handler is suspended in it
  last,       \* the HTTP exchange the latest step completed, if it completed one
  calc        \* the order handed to a classifier and what the classifier returned

vars == <<now, leads, orders, remote, issued, nonceCtr, consumed, settled, req, last, calc>>

\* --------------------------------------------------------------- documents
NoLead == [exists |-> FALSE, riskLevel |-> Null, shopifyShopDomain |-> Null, shopifyAccessToken |-> Null,
           shopifyScope |-> Null, shopifyConnectedAt |-> NoDate,
           lastOrderSync |-> NoDate, totalOrdersSynced |-> 0]

\* new Lead(leadData) of POST /api/leads: no Shopify field is set
QuizLead(riskLevel) == [NoLead EXCEPT !.exists = TRUE, !.riskLevel = riskLevel]

\* riskLevel enum of leadSchema: the value passes validation on save
RiskLevels == {"CRITICAL_RISK", "MODERATE_RISK", "LOW_RISK"}
RiskLevelValid(riskLevel) == riskLevel \in RiskLevels
QuizRiskLevels == {"CRITICAL_RISK"}     \* the level the quiz submits here

\* match: /^[\w-]+\.myshopify\.com$/ of leadSchema.shopifyShopDomain
ShopDomainValid(domain) == domain \in Shops

\* token endpoint of the remote store: the credential it grants for a shop
AccessTokenOf(shop) == IF shop = "s1.myshopify.com" THEN "shpat_s1" ELSE "shpat_s2"

\* ------------------------------------------------------------ state token
\* stateData = { nonce, leadId, timestamp }; encodedState = base64(JSON(stateData))
StateData(nonce, leadId, timestamp) ==
  [isNull |-> FALSE, nonce |-> nonce, leadId |-> leadId, timestamp |-> timestamp]

EncodeState(stateData) == [encoding |-> "base64-json", data |-> stateData]

\* a state parameter that is not the base64 of a JSON text
GarbageState == [encoding |-> "raw", data |-> StateData(0, NoLeadId, NoDate)]
\* base64("null"): JSON.parse succeeds and yields null
NullJsonState == [encoding |-> "base64-json",
                  data |-> [isNull |-> TRUE, nonce |-> 0, leadId |-> NoLeadId, timestamp |-> NoDate]]
NoState == [encoding |-> "absent", data |-> StateData(0, NoLeadId, NoDate)]

\* JSON.parse(Buffer.from(query.state, 'base64').toString()) throws
DecodeThrows(state) == state.encoding # "base64-json"
DecodeState(state) == state.data

\* C5 mutant: the age in minutes is compared with the window counted in seconds
StateExpiredInSeconds(stateData, t) ==
  /\ stateData.timestamp # NoDate
  /\ t - stateData.timestamp > StateExpiryMinutes * 60

\* stateAge = Date.now() - stateData.timestamp; stateAge > 10 * 60 * 1000
\* (an undefined timestamp makes stateAge NaN, and NaN > x is false)
StateExpired(stateData, t) ==
  /\ stateData.timestamp # NoDate
  /\ t - stateData.timestamp > StateExpiryMinutes

\* ------------------------------------------------------------------- HMAC
ParamKeys == <<"code", "hmac", "shop", "state">>     \* Object.keys(query).sort()

\* Object.keys(queryParams).sort().map(key => `${key}=${queryParams[key]}`).join('&')
CanonicalQuery(query) ==
  LET keys == SelectSeq(ParamKeys, LAMBDA k : k # "hmac")
  IN  [i \in 1..Len(keys) |-> <<keys[i], query[keys[i]]>>]

\* crypto.createHmac('sha256', key).update(message).digest('hex')
HmacSha256(key, message) == [key |-> key, message |-> message]
NoHmac == [key |-> Null, message |-> <<>>]

\* C4 mutant: the signature is compared only when the callback carries one
HmacCheckedIfPresent(query) ==
  query.hmac = NoHmac \/ HmacSha256(ClientSecret, CanonicalQuery(query)) = query.hmac

\* generatedHash === hmac of handleOAuthCallback
HmacValid(query) == HmacSha256(ClientSecret, CanonicalQuery(query)) = query.hmac

\* --------------------------------------------------------------- responses
NoResp == [kind |-> "none", code |-> 0, status |-> "", success |-> FALSE, message |-> "", leadId |-> NoLeadId]

\* res.status(code).json({ error: message })
JsonError(code, message) == [NoResp EXCEPT !.kind = "json", !.code = code, !.message = message]

\* res.json({ success: true, message, ... })
JsonOk(message) == [NoResp EXCEPT !.kind = "json", !.code = 200, !.success = TRUE, !.message = message]

\* C9 mutant: the failure redirect goes to the dashboard without status or reason
BareRedirect(message) == [NoResp EXCEPT !.kind = "redirect", !.code = 302]

\* res.redirect(`${frontendUrl}/dashboard?status=error&message=${encodeURIComponent(error.message)}`)
ErrorRedirect(message) ==
  [NoResp EXCEPT !.kind = "redirect", !.code = 302, !.status = "error", !.message = message]

\* res.redirect(`${frontendUrl}/dashboard?status=connected&shop=${authResult.shop}&leadId=${lead._id}`)
ConnectedRedirect(leadId) ==
  [NoResp EXCEPT !.kind = "redirect", !.code = 302, !.status = "connected", !.leadId = leadId]

\* ----------------------------------------------------------- request slots
\* a SyncResult; thrown marks an exception that left the sync instead of a result
NoResult == [success |-> FALSE, processed |-> 0, created |-> 0, updated |-> 0, error |-> "", thrown |-> FALSE]
NoQuery  == [code |-> Null, shop |-> Null, state |-> NoState, hmac |-> NoHmac]

\* a request whose handler is suspended at an await
IdleReq == [pc |-> "idle", op |-> "none", lead |-> NoLeadId, token |-> Null, domain |-> Null,
            floor |-> NoDate, limit |-> 0, fetched |-> {}, cnt |-> 0, result |-> NoResult]

\* an HTTP exchange a step completes: the request and what the client received
\* a report file handed to the user: the data it was computed from, the Orders
\* that went into it, the filename the server attached, the filename it is
\* saved under and the message shown with it
NoArtifact == [data |-> "none", orders |-> {}, served |-> "", saved |-> "", toast |-> ""]

\* the data of a JSON answer: the Lead documents, the Order documents or remote
\* orders, the order count and the shop domain it carries
NoBody == [leads |-> {}, orders |-> {}, count |-> 0, shop |-> Null]

\* (remoteStatus: the HTTP status of the remote store's answer to the order
\* request, 0 when it was not asked; stats: what became of the statistics update)
NoExchange == [op |-> "none", lead |-> NoLeadId, query |-> NoQuery, exchange |-> "none",
               result |-> NoResult, resp |-> NoResp, remoteStatus |-> 0, stats |-> "none",
               artifact |-> NoArtifact, body |-> NoBody]

Answered(op, lead, query, exchange, resp) ==
  [NoExchange EXCEPT !.op = op, !.lead = lead, !.query = query, !.exchange = exchange, !.resp = resp]

InSync(p) == req[p].pc \in {"lastSync", "fetching", "persisting", "counting", "updating"}

\* requests take the lowest free slot
Free(p) == req[p].pc = "idle" /\ \A q \in Procs : q < p => req[q].pc # "idle"

\* ---------------------------------------------------------------- handshake
\* lead.save() runs the schema validators
LeadValid(doc) ==
  /\ RiskLevelValid(doc.riskLevel)
  /\ doc.shopifyShopDomain # Null => ShopDomainValid(doc.shopifyShopDomain)

\* C25 mutant: queries return the stored document whole
Unprojected(doc) == doc

\* a Lead document as a query returns it when the query does not ask for
\* '+shopifyAccessToken': the field is select: false and stays undefined
DefaultProjection(doc) == [doc EXCEPT !.shopifyAccessToken = Null]

\* the four Shopify fields the callback assigns before lead.save()
Connected(doc, authResult, t) ==
  [doc EXCEPT !.shopifyShopDomain = authResult.shop,
              !.shopifyAccessToken = authResult.accessToken,
              !.shopifyScope = authResult.scope,
              !.shopifyConnectedAt = t]

\* C10 mutant: the disconnect clears the credential and leaves the domain
TokenOnlyCleared(doc) == [doc EXCEPT !.shopifyAccessToken = Null]

\* C29 mutant: the disconnect clears domain, scope and date and keeps the credential
CredentialKept(doc) ==
  [doc EXCEPT !.shopifyShopDomain = Null, !.shopifyScope = Null, !.shopifyConnectedAt = NoDate]

\* the four Shopify fields DELETE /disconnect sets to undefined before lead.save()
Disconnected(doc) ==
  [doc EXCEPT !.shopifyShopDomain = Null,
              !.shopifyAccessToken = Null,
              !.shopifyScope = Null,
              !.shopifyConnectedAt = NoDate]

\* new Lead({ email, riskLevel: 'unknown', ... }) of the callback
NewShopifyLead(authResult, t) ==
  Connected([NoLead EXCEPT !.exists = TRUE, !.riskLevel = "unknown"], authResult, t)

\* the _id a document inserted next receives
NextLeadId(coll) ==
  IF \E i \in LeadIds : ~coll[i].exists
  THEN CHOOSE i \in LeadIds : ~coll[i].exists /\ \A j \in LeadIds : ~coll[j].exists => i <= j
  ELSE MaxLeads + 1

\* Lead.findById(stateData.leadId), skipped when leadId is falsy
PendingLead(coll, leadId) ==
  IF leadId \in LeadIds /\ coll[leadId].exists THEN leadId ELSE NoLeadId

\* handleOAuthCallback's result after a successful token exchange
AuthResult(query) ==
  [shop |-> query.shop, accessToken |-> AccessTokenOf(query.shop), scope |-> GrantedScope]

Rejection(resp, exchange, accepted) ==
  [resp |-> resp, exchange |-> exchange, accepted |-> accepted, lead |-> NoLeadId, doc |-> NoLead]

\* GET /callback up to and including lead.save(): what the handler answers
\* or, when the Connection was saved (resp is NoResp), the document it wrote.
\* exchangeOk: the token endpoint answered 2xx with an access_token;
\* saveOk: the database accepted the write.
CallbackOutcome(coll, t, query, exchangeOk, saveOk) ==
  LET stateData == DecodeState(query.state)
      pending   == PendingLead(coll, stateData.leadId)
      lead      == IF pending = NoLeadId THEN NextLeadId(coll) ELSE pending
      doc       == IF pending = NoLeadId
                   THEN NewShopifyLead(AuthResult(query), t)
                   ELSE Connected(coll[pending], AuthResult(query), t)
  IN  IF query.code = Null \/ query.shop = Null \/ query.state = NoState
        THEN Rejection(JsonError(400, "Missing required OAuth parameters"), "none", FALSE)
      ELSE IF DecodeThrows(query.state)
        THEN Rejection(JsonError(400, "Invalid state parameter"), "none", FALSE)
      ELSE IF stateData.isNull
        THEN Rejection(ErrorRedirect("Cannot read properties of null"), "none", FALSE)
      ELSE IF StateExpired(stateData, t)
        THEN Rejection(JsonError(400, "OAuth state expired"), "none", FALSE)
      ELSE IF ~HmacValid(query)
        THEN Rejection(ErrorRedirect("OAuth callback failed: HMAC validation failed"), "none", FALSE)
      ELSE IF ~exchangeOk
        THEN Rejection(ErrorRedirect("OAuth callback failed: Token exchange failed"), "failed", TRUE)
      ELSE IF stateData.leadId = BadLeadId
        THEN Rejection(ErrorRedirect("Cast to ObjectId failed"), "ok", TRUE)
      ELSE IF ~LeadValid(doc)
        THEN Rejection(ErrorRedirect("Lead validation failed"), "ok", TRUE)
      ELSE IF ~saveOk
        THEN Rejection(ErrorRedirect("Lead save failed"), "ok", TRUE)
      ELSE [resp |-> NoResp, exchange |-> "ok", accepted |-> TRUE, lead |-> lead, doc |-> doc]

\* the callbacks a browser or an attacker can send at time t.  The remote store
\* signs whatever state the authorization request carried, so a callback with a
\* state of the sender's choosing and a genuine signature can be obtained by
\* anyone who knows the public client id.
ForgedStates(t) ==
  {GarbageState, NullJsonState,
   EncodeState(StateData(0, NoLeadId, NoDate)),     \* no timestamp
   EncodeState(StateData(0, 1, t + 1)),             \* a timestamp in the future
   EncodeState(StateData(0, NoLeadId, t)),          \* a nonce this server never issued
   EncodeState(StateData(0, 1, t))}

QueryOver(code, shop, state) == [code |-> code, shop |-> shop, state |-> state, hmac |-> NoHmac]

Signatures(query) ==
  { NoHmac,
    HmacSha256(ClientSecret, CanonicalQuery(query)),
    HmacSha256("not-the-secret", CanonicalQuery(query)),
    HmacSha256(ClientSecret, CanonicalQuery([query EXCEPT !.code = "other-code"])) }

Signed(query) == { [query EXCEPT !.hmac = h] : h \in Signatures(query) }

\* a query carrying the signature the remote store computes for it
Genuine(query) == [query EXCEPT !.hmac = HmacSha256(ClientSecret, CanonicalQuery(query))]

\* callbacks of a browser that completed the consent screen of the remote store
HonestQueries(shops, tokens) ==
  { Genuine(QueryOver("code-1", shop, state)) : shop \in shops, state \in tokens }

CallbackQueries(t, tokens) ==
  HonestQueries(Shops, tokens)
    \cup UNION { Signed(QueryOver("code-1", "s1.myshopify.com", state)) : state \in tokens }
    \cup { Genuine(QueryOver("code-1", "s1.myshopify.com", state)) : state \in ForgedStates(t) }
    \cup { Genuine(QueryOver(Null, "s1.myshopify.com", EncodeState(StateData(0, NoLeadId, t)))),
           Genuine(QueryOver("code-1", Null, EncodeState(StateData(0, NoLeadId, t)))),
           Genuine(QueryOver("code-1", "s1.myshopify.com", NoState)) }

NoWindow == [lead |-> NoLeadId, floor |-> NoDate, limit |-> 0]

\* -------------------------------------------------------------- sync engine
\* the remote store lists the newest orders first
Newer(a, b) == a.created_at > b.created_at \/ (a.created_at = b.created_at /\ a.id > b.id)

\* GET orders.json?status=any&limit=..&created_at_min=..  (created_at_min is inclusive)
FetchPage(rem, shop, floor, limit) ==
  LET matching == {o \in rem : o.shop = shop /\ (floor = NoDate \/ o.created_at >= floor)}
  IN  {o \in matching : Cardinality({x \in matching : Newer(x, o)}) < limit}

\* the destinations and totals (in cents) of the orders customers place, in the
\* order they place them: one inside the bloc and within the value band, one
\* outside the bloc
OrderProfiles == <<[country_code |-> "DE", total_price |-> 5000],
                   [country_code |-> "US", total_price |-> 5000]>>

\* the destination and total of the k-th order placed
OrderProfile(k) == OrderProfiles[((k - 1) % Len(OrderProfiles)) + 1]

\* default: false of iossEligible, vatRequired and euDestination in orderSchema
FlagDefault == FALSE

\* the $set document syncOrders builds from one remote order; the three
\* compliance flags are not part of it
Transform(shopId, shopifyOrder) ==
  [shopifyOrderId |-> shopifyOrder.id, shopId |-> shopId, shopifyCreatedAt |-> shopifyOrder.created_at,
   customerCountry |-> shopifyOrder.country_code, totalPrice |-> shopifyOrder.total_price]

\* the 27 member-state codes of euCountries in the Order pre-save hook
EuCountries == {"AT", "BE", "BG", "HR", "CY", "CZ", "DK", "EE", "FI", "FR", "DE", "GR", "HU", "IE",
                "IT", "LV", "LT", "LU", "MT", "NL", "PL", "PT", "RO", "SK", "SI", "ES", "SE"}

\* the value band of the scheme, in cents: totalPrice >= 22 && totalPrice <= 150
MinValueCents == 2200
MaxValueCents == 15000

\* orderSchema.pre('save'): the three flags of a document that is saved
\* (customerCountry holds the shipping country, so the hook's fallback to
\* shippingAddress.countryCode reads the same value)
PreSave(doc) ==
  LET euDestination == doc.customerCountry \in EuCountries
  IN  [doc EXCEPT !.euDestination = euDestination,
                  !.iossEligible = euDestination /\ doc.totalPrice >= MinValueCents
                                     /\ doc.totalPrice <= MaxValueCents,
                  !.vatRequired = euDestination /\ doc.totalPrice > 0]

\* the document an upsert leaves in the collection: on insert the schema
\* defaults fill the fields $set does not name, on update they keep their value
Upserted(stored, doc) ==
  [shopifyOrderId |-> doc.shopifyOrderId, shopId |-> doc.shopId, shopifyCreatedAt |-> doc.shopifyCreatedAt,
   customerCountry |-> doc.customerCountry, totalPrice |-> doc.totalPrice,
   euDestination |-> stored.euDestination, iossEligible |-> stored.iossEligible,
   vatRequired |-> stored.vatRequired]

\* C13 mutant: an inserted document starts out flagged eligible
NewOrderEligible == [euDestination |-> FlagDefault, iossEligible |-> TRUE, vatRequired |-> FlagDefault]

\* the fields of a document that does not exist yet
NewOrder == [euDestination |-> FlagDefault, iossEligible |-> FlagDefault, vatRequired |-> FlagDefault]

\* C12 mutant: the lower bound of the band is exclusive
StrictlyAboveMinimum(order) ==
  /\ order.country_code \in EuCountries
  /\ order.total_price > MinValueCents /\ order.total_price <= MaxValueCents

\* calculateIOSSRequirement(order): totalValue = parseFloat(order.total_price),
\* shippingCountry = order.shipping_address?.country_code
CalculateIOSSRequirement(order) ==
  LET isEUDestination  == order.country_code \in EuCountries
      isIOSSValueRange == order.total_price >= MinValueCents /\ order.total_price <= MaxValueCents
  IN  isEUDestination /\ isIOSSValueRange

\* isIOSSEligible(order) of the batch report generator; Object.keys(EU_VAT_RATES)
\* are the same 27 codes
IsIOSSEligible(order) ==
  LET isNonEuOrigin   == order.origin_country \notin EuCountries
      isEuDestination == order.customer_country \in EuCountries
      isValueInRange  == order.order_value_eur >= MinValueCents /\ order.order_value_eur <= MaxValueCents
  IN  isNonEuOrigin /\ isEuDestination /\ isValueInRange

\* the orders handed to the classifiers: destinations inside and outside the
\* bloc or missing, values (in cents) on both sides of each end of the band,
\* origins outside and inside the bloc or missing
Destinations == {"DE", "FR", "US", Null}
Values       == {0, 2199, 2200, 8500, 15000, 15001, 100000}
Origins      == {"CN", "DE", Null}
ClassifierInputs ==
  {[destination |-> d, value |-> v, origin |-> o] : d \in Destinations, v \in Values, o \in Origins}

\* what a report engine returns: the aggregates it built and the CSV text it
\* wrote (comment lines, header row, data rows)
NoReport == [ran |-> FALSE, aggregates |-> <<>>, preamble |-> <<>>, header |-> <<>>, rows |-> <<>>]

\* (orders: the orders handed to the report engines, oldest first; onDemand and
\* batch: what each engine made of them)
NoCalc == [fn |-> "none", order |-> [destination |-> Null, value |-> 0, origin |-> Null], eligible |-> FALSE,
           orders |-> <<>>, onDemand |-> NoReport, batch |-> NoReport]

\* filter: { shopifyOrderId } of the upsert
Matches(stored, doc) == stored.shopifyOrderId = doc.shopifyOrderId

\* C1 mutant: the batch inserts every fetched order instead of upserting it
InsertOne(store, doc) ==
  Append(store, [shopifyOrderId |-> doc.shopifyOrderId, shopId |-> doc.shopId,
                 shopifyCreatedAt |-> doc.shopifyCreatedAt, customerCountry |-> doc.customerCountry,
                 totalPrice |-> doc.totalPrice, euDestination |-> FALSE, iossEligible |-> FALSE,
                 vatRequired |-> FALSE])

\* updateOne { filter, update: { $set }, upsert: true }
UpsertOne(store, doc) ==
  IF \E i \in 1..Len(store) : Matches(store[i], doc)
  THEN LET i == CHOOSE k \in 1..Len(store) :
                  Matches(store[k], doc) /\ \A j \in 1..Len(store) : Matches(store[j], doc) => k <= j
       IN  [store EXCEPT ![i] = Upserted(store[i], doc)]
  ELSE Append(store, Upserted(NewOrder, doc))

RECURSIVE UpsertAll(_, _, _)
\* Order.bulkWrite(transformedOrders, { ordered: false })
UpsertAll(store, shopId, fetched) ==
  IF fetched = {} THEN store
  ELSE LET o == CHOOSE x \in fetched : \A y \in fetched : x.id <= y.id
       IN  UpsertAll(UpsertOne(store, Transform(shopId, o)), shopId, fetched \ {o})

\* bulkWriteResult.upsertedCount
UpsertedCount(store, shopId, fetched) ==
  Cardinality({o \in fetched : ~\E i \in 1..Len(store) : Matches(store[i], Transform(shopId, o))})

\* Order.countDocuments({ shopId })
CountDocuments(store, shopId) == Cardinality({i \in 1..Len(store) : store[i].shopId = shopId})

\* Order.findOne({ shopId }).sort({ shopifyCreatedAt: -1 })?.shopifyCreatedAt || null
LatestCreatedAt(store, shopId) ==
  LET mine == {store[i].shopifyCreatedAt : i \in {k \in 1..Len(store) : store[k].shopId = shopId}}
  IN  IF mine = {} THEN NoDate ELSE CHOOSE d \in mine : \A e \in mine : e <= d

\* the answers of the remote store to the order request that are not 2xx
RemoteFailures == {401, 429, 500}

\* catch of fetchOrders: throw new Error('Failed to fetch orders from Shopify')
FetchError(status) == "Failed to fetch orders from Shopify"

\* C17 mutant: the failure leaves syncOrders as an exception
SyncThrows(message) == [NoResult EXCEPT !.error = message, !.thrown = TRUE]

\* catch of syncOrders: return { success: false, error: error.message, 0, 0, 0 }
SyncFailure(message) == [NoResult EXCEPT !.error = message]
SyncSuccess(processed, created, updated) ==
  [success |-> TRUE, processed |-> processed, created |-> created, updated |-> updated, error |-> "",
   thrown |-> FALSE]

\* C16 mutant: a failed statistics update fails the sync
StatsRethrown(result) == SyncFailure("Failed to update Lead sync statistics")

\* catch of the statistics try: the failure is logged and the result stands
StatsCaught(result) == result

\* what the request that ran the sync answers once syncOrders has returned or
\* thrown: the callback catches and redirects whatever happened, the trigger
\* wraps a result and answers 500 to an exception
Finish(slot, result, stats) ==
  [op |-> IF slot.op = "callback" THEN "initialSync" ELSE slot.op, lead |-> slot.lead, query |-> NoQuery,
   exchange |-> "none", result |-> result,
   resp |-> IF slot.op = "callback" THEN ConnectedRedirect(slot.lead)
            ELSE IF result.thrown THEN JsonError(500, "Sync failed")
            ELSE JsonOk("Sync completed successfully"),
   remoteStatus |-> 0, stats |-> stats, artifact |-> NoArtifact, body |-> NoBody]

\* ----------------------------------------------------------------- reports
\* Order.find({ shopId, customerCountry: { $in: EU_COUNTRIES }, totalPrice: { $gte: 22, $lte: 150 } })
UserOrders(store, shopId) ==
  {store[i].shopifyOrderId : i \in {k \in 1..Len(store) :
        /\ store[k].shopId = shopId
        /\ store[k].customerCountry \in EuCountries
        /\ store[k].totalPrice >= MinValueCents /\ store[k].totalPrice <= MaxValueCents}}

\* generateUserReport: the file res.download sends, saved under the name sent
ReportArtifact(store, shopId) ==
  IF UserOrders(store, shopId) # {}
  THEN [NoArtifact EXCEPT !.data = "orders", !.orders = UserOrders(store, shopId),
                          !.served = "IOSS_Report_<date>.csv", !.saved = "IOSS_Report_<date>.csv"]
  ELSE [NoArtifact EXCEPT !.data = "sample",
                          !.served = "SAMPLE_Report.csv", !.saved = "SAMPLE_Report.csv"]

\* Dashboard.downloadReport: the blob of GET /reports/sample, saved through
\* a.download under a name of the dashboard's own, then the toast
DashboardArtifact ==
  [NoArtifact EXCEPT !.data = "sample", !.served = "VATpilot_Sample_Report.csv",
                     !.saved = "ioss-report-<date>.csv",
                     !.toast = "IOSS report downloaded successfully"]

\* ---------------------------------------------------------- report engines
\* EU_VAT_RATES, in tenths of a percent (FI is 25.5)
EuVatRates ==
  [AT |-> 200, BE |-> 210, BG |-> 200, CY |-> 190, CZ |-> 210, DE |-> 190, DK |-> 250, EE |-> 220,
   ES |-> 210, FI |-> 255, FR |-> 200, GR |-> 240, HR |-> 250, HU |-> 270, IE |-> 230, IT |-> 220,
   LT |-> 210, LU |-> 170, LV |-> 210, MT |-> 180, NL |-> 210, PL |-> 230, PT |-> 230, RO |-> 190,
   SE |-> 250, SI |-> 220, SK |-> 200]

DefaultVatRate == 200     \* DEFAULT_VAT_RATE = 20

\* EU_VAT_RATES[countryCode] || DEFAULT_VAT_RATE
GetVATRate(countryCode) ==
  IF countryCode \in DOMAIN EuVatRates THEN EuVatRates[countryCode] ELSE DefaultVatRate

\* parseFloat((num / den).toFixed(2)) of an amount in cents
ToFixed2(num, den) == (2 * num + den) \div (2 * den)

RECURSIVE SumSeq(_)
\* values.reduce((sum, x) => sum + x, 0)
SumSeq(values) == IF values = <<>> THEN 0 ELSE values[1] + SumSeq(Tail(values))

\* the order a.localeCompare(b) puts the member-state codes in
Alphabetical ==
  <<"AT", "BE", "BG", "CY", "CZ", "DE", "DK", "EE", "ES", "FI", "FR", "GR", "HR", "HU", "IE", "IT",
    "LT", "LU", "LV", "MT", "NL", "PL", "PT", "RO", "SE", "SI", "SK">>

\* a['Member State'].localeCompare(b['Member State']) < 0
LocaleBefore(a, b) ==
  \E i, j \in 1..Len(Alphabetical) : Alphabetical[i] = a /\ Alphabetical[j] = b /\ i < j

\* Order.find({ shopId, customerCountry: { $in: EU_COUNTRIES }, totalPrice: { $gte: 22, $lte: 150 } })
\*   .sort({ shopifyCreatedAt: -1 }) over documents listed oldest first
FindUserOrders(docs) ==
  LET found == SelectSeq(docs, LAMBDA d : /\ d.customerCountry \in EuCountries
                                          /\ d.totalPrice >= MinValueCents
                                          /\ d.totalPrice <= MaxValueCents)
  IN  [i \in 1..Len(found) |-> found[Len(found) + 1 - i]]

\* C23 mutant: the running total of a country is overwritten by the order's total
OverwriteTotal(countryData, order) ==
  IF \E i \in 1..Len(countryData) : countryData[i].country = order.customerCountry
  THEN LET i == CHOOSE k \in 1..Len(countryData) : countryData[k].country = order.customerCountry
       IN  [countryData EXCEPT ![i].totalValue = order.totalPrice, ![i].orderCount = @ + 1]
  ELSE Append(countryData, [country |-> order.customerCountry, totalValue |-> order.totalPrice,
                            orderCount |-> 1])

\* processIOSSOrders, body of orders.forEach: countryData keeps its keys in
\* the order they were first assigned
AddOrder(countryData, order) ==
  IF \E i \in 1..Len(countryData) : countryData[i].country = order.customerCountry
  THEN LET i == CHOOSE k \in 1..Len(countryData) : countryData[k].country = order.customerCountry
       IN  [countryData EXCEPT ![i].totalValue = @ + order.totalPrice, ![i].orderCount = @ + 1]
  ELSE Append(countryData, [country |-> order.customerCountry, totalValue |-> order.totalPrice,
                            orderCount |-> 1])

RECURSIVE GroupByCountry(_, _)
\* processIOSSOrders: orders.forEach(...)
GroupByCountry(countryData, userOrders) ==
  IF userOrders = <<>> THEN countryData
  ELSE GroupByCountry(AddOrder(countryData, userOrders[1]), Tail(userOrders))

\* processIOSSOrders: Object.values(countryData).map(...); the total is taken
\* as tax-inclusive: netValue = totalValue / (1 + vatRate / 100)
ProcessIOSSOrders(userOrders) ==
  LET countryData == GroupByCountry(<<>>, userOrders)
  IN  [i \in 1..Len(countryData) |->
        LET data    == countryData[i]
            vatRate == GetVATRate(data.country)
        IN  [memberState |-> data.country,
             netValue    |-> ToFixed2(data.totalValue * 1000, 1000 + vatRate),
             vatAmount   |-> ToFixed2(data.totalValue * vatRate, 1000 + vatRate),
             supplies    |-> data.orderCount,
             vatRate     |-> vatRate,
             orderCount  |-> data.orderCount]]

\* generateCSVContent: json2csv over csvFields
GenerateCSVContent(data) ==
  [NoReport EXCEPT
     !.ran = TRUE, !.aggregates = data,
     !.header = <<"Member State of Destination", "Total Net Value (EUR)", "Total VAT Amount (EUR)",
                  "Number of Supplies", "VAT Rate (%)">>,
     !.rows = [i \in 1..Len(data) |->
                <<data[i].memberState, data[i].netValue, data[i].vatAmount, data[i].supplies,
                  data[i].vatRate>>]]

\* calculateVATAmount: the amount is taken as tax-exclusive
CalculateVATAmount(taxableAmount, vatRate) == ToFixed2(taxableAmount * vatRate, 1000)

\* processOrdersForIOSS, body of iossEligibleOrders.forEach
AddEligibleOrder(countryAggregation, order) ==
  LET memberState == order.customer_country
      vatRate     == GetVATRate(memberState)
      vatAmount   == CalculateVATAmount(order.order_value_eur, vatRate)
  IN  IF \E i \in 1..Len(countryAggregation) : countryAggregation[i].memberState = memberState
      THEN LET i == CHOOSE k \in 1..Len(countryAggregation) :
                      countryAggregation[k].memberState = memberState
           IN  [countryAggregation EXCEPT ![i].taxableAmount = @ + order.order_value_eur,
                                          ![i].vatAmount = @ + vatAmount,
                                          ![i].orderCount = @ + 1]
      ELSE Append(countryAggregation,
                  [memberState |-> memberState, vatRate |-> vatRate,
                   taxableAmount |-> order.order_value_eur, vatAmount |-> vatAmount, orderCount |-> 1])

RECURSIVE AggregateByCountry(_, _)
\* processOrdersForIOSS: iossEligibleOrders.forEach(...)
AggregateByCountry(countryAggregation, eligibleOrders) ==
  IF eligibleOrders = <<>> THEN countryAggregation
  ELSE AggregateByCountry(AddEligibleOrder(countryAggregation, eligibleOrders[1]), Tail(eligibleOrders))

\* processOrdersForIOSS(orders).aggregatedData: filter, aggregate, sort
ProcessOrdersForIOSS(fileOrders) ==
  SortSeq(AggregateByCountry(<<>>, SelectSeq(fileOrders, IsIOSSEligible)),
          LAMBDA a, b : LocaleBefore(a.memberState, b.memberState))

\* generateCSVReport: json2csv over csvFields, after the comment lines of reportHeader
GenerateCSVReport(data) ==
  [NoReport EXCEPT
     !.ran = TRUE, !.aggregates = data,
     !.preamble = <<"# EU IOSS Monthly Return - December 2025", "# Generated on: <date>",
                    "# Reporting Period: December 2025", "# IOSS ID: [To be filled by operator]", "# ">>,
     !.header = <<"Member State", "VAT Rate", "Taxable Amount (EUR)", "VAT Amount (EUR)">>,
     !.rows = [i \in 1..Len(data) |->
                <<data[i].memberState, data[i].vatRate, data[i].taxableAmount, data[i].vatAmount>>]]

\* the orders a report is made of: inside and outside the band and the bloc,
\* shipped from outside and from inside the bloc
ReportOrders ==
  {[destination |-> "DE", value |-> 5000, origin |-> "CN"],
   [destination |-> "DE", value |-> 10001, origin |-> "CN"],
   [destination |-> "AT", value |-> 5000, origin |-> "CN"],
   [destination |-> "AT", value |-> 1000, origin |-> "CN"],
   [destination |-> "US", value |-> 5000, origin |-> "CN"],
   [destination |-> "DE", value |-> 5000, origin |-> "DE"]}

\* every list of at most MaxBatch of them
OrderBatches == UNION {[1..n -> ReportOrders] : n \in 0..MaxBatch}

\* ------------------------------------------------------------------ actions
Init ==
  /\ now = 0
  /\ leads = [i \in LeadIds |-> NoLead]
  /\ orders = <<>>
  /\ remote = {}
  /\ issued = {}
  /\ nonceCtr = 0
  /\ consumed = {}
  /\ settled = NoWindow
  /\ req = [p \in Procs |-> IdleReq]
  /\ last = NoExchange
  /\ calc = NoCalc

\* the clock
Tick(d) ==
  /\ now + d <= MaxTime
  /\ now' = now + d
  /\ UNCHANGED <<leads, orders, remote, issued, nonceCtr, consumed, settled, req, calc>>
  /\ last' = NoExchange

\* POST /api/leads: the quiz stores a new Lead
SubmitLead(riskLevel) ==
  /\ RiskLevelValid(riskLevel)
  /\ NextLeadId(leads) \in LeadIds
  /\ leads' = [leads EXCEPT ![NextLeadId(leads)] = QuizLead(riskLevel)]
  /\ UNCHANGED <<now, orders, remote, issued, nonceCtr, consumed, settled, req, calc>>
  /\ last' = NoExchange

\* a customer places an order in a remote store, a minute after the previous
\* one; the order carries its destination and its total
RemoteNewOrder(shop) ==
  /\ Cardinality(remote) < MaxRemote
  /\ now < MaxTime
  /\ now' = now + 1
  /\ remote' = remote \cup {[id |-> Cardinality(remote) + 1, shop |-> shop, created_at |-> now + 1,
                             country_code |-> OrderProfile(Cardinality(remote) + 1).country_code,
                             total_price |-> OrderProfile(Cardinality(remote) + 1).total_price]}
  /\ settled' = NoWindow
  /\ UNCHANGED <<leads, orders, issued, nonceCtr, consumed, req, calc>>
  /\ last' = NoExchange

\* GET /api/shopify/auth: the state token leaves in the redirect, nothing is stored
Auth(shop, leadId) ==
  /\ shop # Null
  /\ nonceCtr < MaxAuth
  /\ nonceCtr' = nonceCtr + 1
  /\ issued' = issued \cup {EncodeState(StateData(nonceCtr + 1, leadId, now))}
  /\ UNCHANGED <<now, leads, orders, remote, consumed, settled, req, calc>>
  /\ last' = NoExchange

\* GET /api/shopify/callback, through lead.save(); the initial sync follows
Callback(p, query) ==
  /\ Free(p)
  /\ \E fault \in {"none", "exchange", "save"} :
       LET out   == CallbackOutcome(leads, now, query, fault # "exchange", fault # "save")
       IN  /\ out.lead \in LeadIds \cup {NoLeadId}
           /\ consumed' = IF out.accepted THEN consumed \cup {DecodeState(query.state).nonce} ELSE consumed
           /\ IF out.resp # NoResp
              THEN /\ last' = Answered("callback", NoLeadId, query, out.exchange, out.resp)
                   /\ UNCHANGED <<leads, settled, req>>
              ELSE /\ leads' = [leads EXCEPT ![out.lead] = out.doc]
                   /\ settled' = IF settled.lead = out.lead
                                      /\ leads[out.lead].shopifyShopDomain # out.doc.shopifyShopDomain
                                 THEN NoWindow ELSE settled
                   /\ req' = [req EXCEPT ![p] =
                                [IdleReq EXCEPT !.pc = "fetching", !.op = "callback", !.lead = out.lead,
                                                !.token = out.doc.shopifyAccessToken,
                                                !.domain = out.doc.shopifyShopDomain,
                                                !.limit = InitialSyncLimit]]
                   \* no answer yet: the handler goes on to the initial sync
                   /\ last' = Answered("callback", out.lead, query, out.exchange, NoResp)
  /\ UNCHANGED <<now, orders, remote, issued, nonceCtr, calc>>

\* DELETE /api/shopify/disconnect/:leadId
Disconnect(p, leadId) ==
  /\ Free(p)
  /\ IF ~leads[leadId].exists
     THEN /\ last' = Answered("disconnect", leadId, NoQuery, "none", JsonError(404, "Lead not found"))
          /\ UNCHANGED leads
     ELSE /\ leads' = [leads EXCEPT ![leadId] = Disconnected(@)]
          /\ last' = Answered("disconnect", leadId, NoQuery, "none",
                              JsonOk("Shopify store disconnected successfully"))
  /\ UNCHANGED <<now, orders, remote, issued, nonceCtr, consumed, settled, req, calc>>

\* POST /api/orders/sync, up to the first await of incrementalSync
SyncTrigger(p, leadId, fullSync) ==
  /\ Free(p)
  /\ IF leadId = NoLeadId
       THEN /\ last' = Answered("sync", leadId, NoQuery, "none", JsonError(400, "leadId is required"))
            /\ UNCHANGED req
     ELSE IF ~leads[leadId].exists
       THEN /\ last' = Answered("sync", leadId, NoQuery, "none", JsonError(404, "Lead not found"))
            /\ UNCHANGED req
     ELSE IF leads[leadId].shopifyAccessToken = Null \/ leads[leadId].shopifyShopDomain = Null
       THEN /\ last' = Answered("sync", leadId, NoQuery, "none", JsonError(400, "No Shopify store connected"))
            /\ UNCHANGED req
     ELSE IF fullSync
       \* syncOrders is not imported by the route: ReferenceError, caught by the handler
       THEN /\ last' = Answered("sync", leadId, NoQuery, "none", JsonError(500, "Sync failed"))
            /\ UNCHANGED req
     ELSE /\ req' = [req EXCEPT ![p] =
                      [IdleReq EXCEPT !.pc = "lastSync", !.op = "sync", !.lead = leadId,
                                      !.token = leads[leadId].shopifyAccessToken,
                                      !.domain = leads[leadId].shopifyShopDomain,
                                      !.limit = IncrementalLimit]]
          /\ last' = NoExchange
  /\ UNCHANGED <<now, leads, orders, remote, issued, nonceCtr, consumed, settled, calc>>

\* getLastSyncDate: a failed lookup is swallowed and yields null
GetLastSyncDate(p) ==
  /\ req[p].pc = "lastSync"
  /\ \E ok \in BOOLEAN :
       req' = [req EXCEPT ![p].pc = "fetching",
                          ![p].floor = IF ok THEN LatestCreatedAt(orders, req[p].lead) ELSE NoDate]
  /\ UNCHANGED <<now, leads, orders, remote, issued, nonceCtr, consumed, settled, calc>>
  /\ last' = NoExchange

\* syncOrders: await fetchOrders(domain, accessToken, fetchOptions)
FetchOrders(p) ==
  /\ req[p].pc = "fetching"
  /\ \E status \in {200} \cup RemoteFailures :
       LET page == FetchPage(remote, req[p].domain, req[p].floor, req[p].limit)
       IN  IF status # 200
           THEN /\ last' = [Finish(req[p], SyncFailure(FetchError(status)), "skipped")
                              EXCEPT !.remoteStatus = status]
                /\ req' = [req EXCEPT ![p] = IdleReq]
                /\ UNCHANGED settled
           ELSE IF page = {}
           THEN /\ last' = [Finish(req[p], SyncSuccess(0, 0, 0), "skipped") EXCEPT !.remoteStatus = status]
                /\ req' = [req EXCEPT ![p] = IdleReq]
                /\ settled' = IF settled.lead \in {NoLeadId, req[p].lead}
                               THEN [lead |-> req[p].lead, floor |-> req[p].floor, limit |-> req[p].limit]
                               ELSE settled
           ELSE /\ req' = [req EXCEPT ![p].pc = "persisting", ![p].fetched = page]
                /\ UNCHANGED settled
                /\ last' = NoExchange
  /\ UNCHANGED <<now, leads, orders, remote, issued, nonceCtr, consumed, calc>>

\* the page a sync holds is what the remote store would still answer
Fresh(slot) == slot.fetched = FetchPage(remote, slot.domain, slot.floor, slot.limit)

\* syncOrders: await Order.bulkWrite(transformedOrders, { ordered: false })
BulkWrite(p) ==
  /\ req[p].pc = "persisting"
  /\ \/ /\ orders' = UpsertAll(orders, req[p].lead, req[p].fetched)
        /\ req' = [req EXCEPT ![p].pc = "counting", ![p].fetched = {},
                     ![p].result = SyncSuccess(Cardinality(req[p].fetched),
                                     UpsertedCount(orders, req[p].lead, req[p].fetched),
                                     Cardinality(req[p].fetched)
                                       - UpsertedCount(orders, req[p].lead, req[p].fetched))]
        /\ settled' = IF Fresh(req[p])
                       THEN [lead |-> req[p].lead, floor |-> req[p].floor, limit |-> req[p].limit]
                       ELSE NoWindow
        /\ last' = NoExchange
     \/ \* a write error: the other operations of the unordered batch were applied
        \E applied \in (SUBSET req[p].fetched) \ {req[p].fetched} :
          /\ orders' = UpsertAll(orders, req[p].lead, applied)
          /\ last' = Finish(req[p], SyncFailure("bulkWrite failed"), "skipped")
          /\ req' = [req EXCEPT ![p] = IdleReq]
          /\ settled' = NoWindow
  /\ UNCHANGED <<now, leads, remote, issued, nonceCtr, consumed, calc>>

\* syncOrders: await Order.countDocuments({ shopId }), inside the statistics try
CountStep(p) ==
  /\ req[p].pc = "counting"
  /\ \E ok \in BOOLEAN :
       IF ok THEN /\ req' = [req EXCEPT ![p].pc = "updating", ![p].cnt = CountDocuments(orders, req[p].lead)]
                  /\ last' = NoExchange
       ELSE /\ last' = Finish(req[p], StatsCaught(req[p].result), "failed")
            /\ req' = [req EXCEPT ![p] = IdleReq]
  /\ UNCHANGED <<now, leads, orders, remote, issued, nonceCtr, consumed, settled, calc>>

\* syncOrders: await Lead.findByIdAndUpdate(shopId, { lastOrderSync, totalOrdersSynced })
UpdateLead(p) ==
  /\ req[p].pc = "updating"
  /\ \E ok \in BOOLEAN :
       IF ok THEN /\ leads' = [leads EXCEPT ![req[p].lead].lastOrderSync = now,
                                            ![req[p].lead].totalOrdersSynced = req[p].cnt]
                  /\ last' = Finish(req[p], req[p].result, "updated")
       ELSE /\ UNCHANGED leads
            /\ last' = Finish(req[p], StatsCaught(req[p].result), "failed")
  /\ req' = [req EXCEPT ![p] = IdleReq]
  /\ UNCHANGED <<now, orders, remote, issued, nonceCtr, consumed, settled, calc>>

\* an Order document with this destination and total is saved
ClassifyOnSave ==
  /\ calc.fn = "none"
  /\ calc' = [calc EXCEPT !.fn = "preSave",
                          !.eligible = PreSave(Upserted(NewOrder,
                                         [shopifyOrderId |-> 0, shopId |-> NoLeadId, shopifyCreatedAt |-> NoDate,
                                          customerCountry |-> calc.order.destination,
                                          totalPrice |-> calc.order.value])).iossEligible]
  /\ UNCHANGED <<now, leads, orders, remote, issued, nonceCtr, consumed, settled, req, last>>

\* GET /orders/:leadId computes iossRequired of a listed remote order
ClassifyListed ==
  /\ calc.fn = "none"
  /\ calc' = [calc EXCEPT !.fn = "calculateIOSSRequirement",
                          !.eligible = CalculateIOSSRequirement(
                                         [country_code |-> calc.order.destination,
                                          total_price |-> calc.order.value])]
  /\ UNCHANGED <<now, leads, orders, remote, issued, nonceCtr, consumed, settled, req, last>>

\* the batch report generator filters one order of its input file
ClassifyBatch ==
  /\ calc.fn = "none"
  /\ calc' = [calc EXCEPT !.fn = "isIOSSEligible",
                          !.eligible = IsIOSSEligible(
                                         [origin_country |-> calc.order.origin,
                                          customer_country |-> calc.order.destination,
                                          order_value_eur |-> calc.order.value])]
  /\ UNCHANGED <<now, leads, orders, remote, issued, nonceCtr, consumed, settled, req, last>>

\* generateUserReport(req, res): the report of req.query.leadId
GenerateUserReport(leadId) ==
  /\ last' = IF leadId = NoLeadId
               THEN Answered("report", leadId, NoQuery, "none",
                             JsonError(400, "leadId or shopId parameter is required"))
             ELSE IF ~leads[leadId].exists
               THEN Answered("report", leadId, NoQuery, "none", JsonError(404, "User not found"))
             ELSE [Answered("report", leadId, NoQuery, "none", [NoResp EXCEPT !.kind = "download", !.code = 200])
                     EXCEPT !.artifact = ReportArtifact(orders, leadId)]
  /\ UNCHANGED <<now, leads, orders, remote, issued, nonceCtr, consumed, settled, req, calc>>

\* the dashboard's Download button: downloadReport fetches GET /api/reports/sample
DownloadReport(leadId) ==
  /\ leads[leadId].exists
  /\ \E fileExists \in BOOLEAN :
       last' = IF fileExists
               THEN [Answered("downloadReport", leadId, NoQuery, "none",
                              [NoResp EXCEPT !.kind = "download", !.code = 200])
                       EXCEPT !.artifact = DashboardArtifact]
               ELSE Answered("downloadReport", leadId, NoQuery, "none",
                             JsonError(404, "Sample report not available"))
  /\ UNCHANGED <<now, leads, orders, remote, issued, nonceCtr, consumed, settled, req, calc>>

\* GET /api/leads: the Lead documents (a page holds more than the collection)
ListLeads ==
  /\ last' = [Answered("leads", NoLeadId, NoQuery, "none", JsonOk(""))
                EXCEPT !.body = [NoBody EXCEPT !.leads = {DefaultProjection(leads[i]) :
                                                           i \in {k \in LeadIds : leads[k].exists}}]]
  /\ UNCHANGED <<now, leads, orders, remote, issued, nonceCtr, consumed, settled, req, calc>>

\* GET /api/orders?leadId=: the synced Orders of a lead
ListOrders(leadId) ==
  LET lead == DefaultProjection(leads[leadId])
  IN  /\ last' = IF leadId = NoLeadId
                   THEN Answered("orders", leadId, NoQuery, "none", JsonError(400, "leadId parameter is required"))
                 ELSE IF ~lead.exists
                   THEN Answered("orders", leadId, NoQuery, "none", JsonError(404, "Lead not found"))
                 ELSE IF lead.shopifyShopDomain = Null
                   THEN Answered("orders", leadId, NoQuery, "none",
                                 JsonError(400, "No Shopify store connected to this lead"))
                 ELSE [Answered("orders", leadId, NoQuery, "none", JsonOk(""))
                         EXCEPT !.body = [NoBody EXCEPT
                                            !.orders = {orders[i] : i \in {k \in 1..Len(orders) :
                                                                             orders[k].shopId = leadId}},
                                            !.count = CountDocuments(orders, leadId),
                                            !.shop = lead.shopifyShopDomain]]
      /\ UNCHANGED <<now, leads, orders, remote, issued, nonceCtr, consumed, settled, req, calc>>

\* GET /api/orders/summary?leadId=: the totals of a lead's Orders
OrderSummary(leadId) ==
  LET lead == DefaultProjection(leads[leadId])
  IN  /\ last' = IF leadId = NoLeadId
                   THEN Answered("summary", leadId, NoQuery, "none", JsonError(400, "leadId parameter is required"))
                 ELSE IF ~lead.exists
                   THEN Answered("summary", leadId, NoQuery, "none", JsonError(404, "Lead not found"))
                 ELSE [Answered("summary", leadId, NoQuery, "none", JsonOk(""))
                         EXCEPT !.body = [NoBody EXCEPT !.count = CountDocuments(orders, leadId),
                                                        !.shop = lead.shopifyShopDomain]]
      /\ UNCHANGED <<now, leads, orders, remote, issued, nonceCtr, consumed, settled, req, calc>>

\* GET /api/orders/:orderId?leadId=: one Order of a lead
OrderDetail(leadId, orderId) ==
  LET found == {orders[i] : i \in {k \in 1..Len(orders) :
                                     orders[k].shopifyOrderId = orderId /\ orders[k].shopId = leadId}}
  IN  /\ last' = IF leadId = NoLeadId
                   THEN Answered("order", leadId, NoQuery, "none", JsonError(400, "leadId parameter is required"))
                 ELSE IF found = {}
                   THEN Answered("order", leadId, NoQuery, "none", JsonError(404, "Order not found"))
                 ELSE [Answered("order", leadId, NoQuery, "none", JsonOk(""))
                         EXCEPT !.body = [NoBody EXCEPT !.orders = found]]
      /\ UNCHANGED <<now, leads, orders, remote, issued, nonceCtr, consumed, settled, req, calc>>

\* GET /api/shopify/orders/:leadId: the orders of the lead's store, fetched
\* from the remote store with the lead's credential
ShopifyOrders(leadId) ==
  LET lead == DefaultProjection(leads[leadId])
  IN  /\ \E status \in {200} \cup RemoteFailures :
           last' = IF ~lead.exists
                     THEN Answered("shopifyOrders", leadId, NoQuery, "none", JsonError(404, "Lead not found"))
                   ELSE IF lead.shopifyAccessToken = Null \/ lead.shopifyShopDomain = Null
                     THEN Answered("shopifyOrders", leadId, NoQuery, "none",
                                   JsonError(400, "Shopify store not connected"))
                   ELSE IF status # 200
                     THEN [Answered("shopifyOrders", leadId, NoQuery, "none",
                                    JsonError(500, "Failed to fetch orders"))
                             EXCEPT !.remoteStatus = status]
                   ELSE [Answered("shopifyOrders", leadId, NoQuery, "none", JsonOk(""))
                           EXCEPT !.remoteStatus = status,
                                  !.body = [NoBody EXCEPT
                                              !.orders = {[id |-> o.id, created_at |-> o.created_at,
                                                           total_price |-> o.total_price,
                                                           country_code |-> o.country_code,
                                                           requiresIOSS |-> CalculateIOSSRequirement(o)] :
                                                            o \in FetchPage(remote, lead.shopifyShopDomain,
                                                                            NoDate, DefaultListLimit)},
                                              !.count = Cardinality(FetchPage(remote, lead.shopifyShopDomain,
                                                                              NoDate, DefaultListLimit)),
                                              !.shop = lead.shopifyShopDomain]]
      /\ UNCHANGED <<now, leads, orders, remote, issued, nonceCtr, consumed, settled, req, calc>>

\* generateUserReport over the persisted Orders of a Connection, on the branch
\* taken when the query finds at least one Order
ReportOnDemand ==
  /\ ~calc.onDemand.ran
  /\ \E k \in 1..Len(calc.orders) :
       /\ calc.orders[k].destination \in EuCountries
       /\ calc.orders[k].value >= MinValueCents /\ calc.orders[k].value <= MaxValueCents
  /\ calc' = [calc EXCEPT !.onDemand =
                GenerateCSVContent(ProcessIOSSOrders(FindUserOrders(
                  [i \in 1..Len(calc.orders) |->
                    [customerCountry |-> calc.orders[i].destination,
                     totalPrice |-> calc.orders[i].value, shopifyCreatedAt |-> i]])))]
  /\ UNCHANGED <<now, leads, orders, remote, issued, nonceCtr, consumed, settled, req, last>>

\* generateIOSSReport over the orders of its input file; it writes no report
\* when no order is eligible
ReportBatch ==
  LET aggregatedData == ProcessOrdersForIOSS(
                          [i \in 1..Len(calc.orders) |->
                            [customer_country |-> calc.orders[i].destination,
                             order_value_eur |-> calc.orders[i].value,
                             origin_country |-> calc.orders[i].origin]])
  IN  /\ ~calc.batch.ran
      /\ aggregatedData # <<>>
      /\ calc' = [calc EXCEPT !.batch = GenerateCSVReport(aggregatedData)]
      /\ UNCHANGED <<now, leads, orders, remote, issued, nonceCtr, consumed, settled, req, last>>

\* the dashboard's flows: it starts the handshake with its own lead id and the
\* browser comes back from the consent screen within the expiry window or not
Next ==
  \/ \E r \in QuizRiskLevels : SubmitLead(r)
  \/ \E s \in MerchantShops : RemoteNewOrder(s)
  \/ \E s \in MerchantShops, l \in LeadIds : Auth(s, l)
  \/ \E p \in Procs : \E q \in HonestQueries(MerchantShops, issued) : Callback(p, q)
  \/ \E p \in Procs, l \in LeadIds : Disconnect(p, l)
  \/ \E p \in Procs, l \in {NoLeadId} \cup LeadIds, f \in BOOLEAN : SyncTrigger(p, l, f)
  \/ \E p \in Procs : GetLastSyncDate(p)
  \/ \E p \in Procs : FetchOrders(p)
  \/ \E p \in Procs : BulkWrite(p)
  \/ \E p \in Procs : CountStep(p)
  \/ \E p \in Procs : UpdateLead(p)

Spec == Init /\ [][Next]_vars

\* the steps the program takes by itself once a sync is under way: the database
\* answers the last-sync lookup, the bulkWrite, the count and the Lead update.
\* The answer of the remote store to the order request is not among them, and
\* the program arms no timer while it awaits that answer.
SyncFairness ==
  \A p \in Procs : /\ WF_vars(GetLastSyncDate(p)) /\ WF_vars(BulkWrite(p))
                    /\ WF_vars(CountStep(p)) /\ WF_vars(UpdateLead(p))

SpecLive == Init /\ [][Next]_vars /\ SyncFairness

\* the handshake under every callback a browser or an attacker can send
NextHandshake ==
  \/ \E d \in TickSteps : Tick(d)
  \/ \E r \in QuizRiskLevels : SubmitLead(r)
  \/ \E s \in Shops, l \in {NoLeadId, BadLeadId} \cup LeadIds : Auth(s, l)
  \/ \E p \in Procs : \E q \in CallbackQueries(now, issued) : Callback(p, q)
  \/ \E p \in Procs, l \in LeadIds : Disconnect(p, l)
  \/ \E p \in Procs : FetchOrders(p)

SpecHandshake == Init /\ [][NextHandshake]_vars

\* the reports a merchant obtains for a Connection and its synced orders
NextReport ==
  \/ \E r \in QuizRiskLevels : SubmitLead(r)
  \/ \E s \in MerchantShops : RemoteNewOrder(s)
  \/ \E s \in MerchantShops, l \in LeadIds : Auth(s, l)
  \/ \E p \in Procs : \E q \in HonestQueries(MerchantShops, issued) : Callback(p, q)
  \/ \E p \in Procs : FetchOrders(p)
  \/ \E p \in Procs : BulkWrite(p)
  \/ \E p \in Procs : CountStep(p)
  \/ \E p \in Procs : UpdateLead(p)
  \/ \E l \in {NoLeadId} \cup LeadIds : GenerateUserReport(l)
  \/ \E l \in LeadIds : DownloadReport(l)

SpecReport == Init /\ [][NextReport]_vars

\* the classifiers over every order of ClassifierInputs
InitClassify ==
  /\ now = 0
  /\ leads = [i \in LeadIds |-> NoLead]
  /\ orders = <<>>
  /\ remote = {}
  /\ issued = {}
  /\ nonceCtr = 0
  /\ consumed = {}
  /\ settled = NoWindow
  /\ req = [p \in Procs |-> IdleReq]
  /\ last = NoExchange
  /\ calc \in {[NoCalc EXCEPT !.order = o] : o \in ClassifierInputs}

NextClassify ==
  \/ ClassifyOnSave
  \/ ClassifyListed
  \/ ClassifyBatch

SpecClassify == InitClassify /\ [][NextClassify]_vars

\* the two report engines over every list of OrderBatches
InitAggregate ==
  /\ now = 0
  /\ leads = [i \in LeadIds |-> NoLead]
  /\ orders = <<>>
  /\ remote = {}
  /\ issued = {}
  /\ nonceCtr = 0
  /\ consumed = {}
  /\ settled = NoWindow
  /\ req = [p \in Procs |-> IdleReq]
  /\ last = NoExchange
  /\ calc \in {[NoCalc EXCEPT !.orders = batch] : batch \in OrderBatches}

NextAggregate ==
  \/ ReportOnDemand
  \/ ReportBatch

SpecAggregate == InitAggregate /\ [][NextAggregate]_vars

\* the request slot of a server that has one request in flight at a time
FirstSlot == {p \in Procs : \A q \in Procs : p <= q}

\* the leads that completed the handshake for the same store
Owners == 1..MaxOwners

\* syncs of one store, one at a time: every lead of Owners has connected the
\* merchant's store, whose orders are yet to be placed
InitOwnership ==
  /\ now = 0
  /\ leads \in {[i \in Owners |->
                   Connected(QuizLead(r), [shop |-> s, accessToken |-> AccessTokenOf(s), scope |-> GrantedScope], 0)] :
                 r \in QuizRiskLevels, s \in MerchantShops}
  /\ orders = <<>>
  /\ remote = {}
  /\ issued = {}
  /\ nonceCtr = 0
  /\ consumed = {}
  /\ settled = NoWindow
  /\ req = [p \in Procs |-> IdleReq]
  /\ last = NoExchange
  /\ calc = NoCalc

NextOwnership ==
  \/ \E s \in MerchantShops : RemoteNewOrder(s)
  \/ \E p \in FirstSlot, l \in Owners, f \in BOOLEAN : SyncTrigger(p, l, f)
  \/ \E p \in FirstSlot : GetLastSyncDate(p)
  \/ \E p \in FirstSlot : FetchOrders(p)
  \/ \E p \in FirstSlot : BulkWrite(p)
  \/ \E p \in FirstSlot : CountStep(p)
  \/ \E p \in FirstSlot : UpdateLead(p)

SpecOwnership == InitOwnership /\ [][NextOwnership]_vars

\* a merchant's Connection through its life: handshake, syncs, reads, disconnect
NextAccess ==
  \/ \E r \in QuizRiskLevels : SubmitLead(r)
  \/ \E s \in MerchantShops : RemoteNewOrder(s)
  \/ \E s \in MerchantShops, l \in LeadIds : Auth(s, l)
  \/ \E p \in FirstSlot : \E q \in HonestQueries(MerchantShops, issued) : Callback(p, q)
  \/ \E p \in FirstSlot, l \in LeadIds : Disconnect(p, l)
  \/ \E p \in FirstSlot, l \in {NoLeadId} \cup LeadIds, f \in BOOLEAN : SyncTrigger(p, l, f)
  \/ \E p \in FirstSlot : GetLastSyncDate(p)
  \/ \E p \in FirstSlot : FetchOrders(p)
  \/ \E p \in FirstSlot : BulkWrite(p)
  \/ \E p \in FirstSlot : CountStep(p)
  \/ \E p \in FirstSlot : UpdateLead(p)
  \/ ListLeads
  \/ \E l \in {NoLeadId} \cup LeadIds : ListOrders(l)
  \/ \E l \in {NoLeadId} \cup LeadIds : OrderSummary(l)
  \/ \E l \in {NoLeadId} \cup LeadIds, o \in 1..MaxRemote : OrderDetail(l, o)
  \/ \E l \in LeadIds : ShopifyOrders(l)

SpecAccess == Init /\ [][NextAccess]_vars

\* ------------------------------------------------------------------- claims

C2_NoOverlap ==
  \A p, q \in Procs :
    (p # q /\ InSync(p) /\ InSync(q) /\ req[p].op = "sync" /\ req[q].op = "sync")
      => req[p].lead # req[q].lead

\* C3 (as claimed): of two simultaneous triggered syncs of one Connection only
\* one applies its upserts
C3_SingleFlight ==
  \A p, q \in Procs :
    (p # q /\ req[p].op = "sync" /\ req[q].op = "sync" /\ req[p].lead = req[q].lead)
      => ~(req[p].pc \in {"counting", "updating"} /\ req[q].pc \in {"counting", "updating"})

\* C4: a callback whose hmac is not the HMAC-SHA256, under the client secret, of
\* its other parameters in canonical form is rejected: it is answered with an
\* error, no token exchange is requested and no Lead is created or modified.
C4_HmacRejected ==
  [][(last'.op = "callback"
        /\ last'.query.hmac # HmacSha256(ClientSecret, CanonicalQuery(last'.query)))
       => /\ last'.resp.kind # "none" /\ last'.resp.status # "connected"
          /\ last'.exchange = "none"
          /\ leads' = leads /\ req' = req]_vars

\* C4 witness: a callback carrying an issued state and a signature made with
\* another key has been turned away at the HMAC check
C4_Witness ==
  /\ last.op = "callback"
  /\ last.query.state \in issued
  /\ last.query.hmac = HmacSha256("not-the-secret", CanonicalQuery(last.query))
  /\ last.resp = ErrorRedirect("OAuth callback failed: HMAC validation failed")

\* C5: a complete callback whose state token was issued more than 10 minutes
\* earlier is rejected as expired, without token exchange and without change to
\* any Lead; a genuinely signed callback whose state token is 9 minutes old
\* passes the state and HMAC checks and goes on to the token exchange.
C5_Expiry ==
  [][(last'.op = "callback" /\ last'.query.state \in issued
        /\ last'.query.code # Null /\ last'.query.shop # Null)
       => LET age == now - DecodeState(last'.query.state).timestamp
          IN  /\ age > StateExpiryMinutes
                   => /\ last'.resp = JsonError(400, "OAuth state expired")
                      /\ last'.exchange = "none"
                      /\ leads' = leads /\ req' = req
              /\ (age = StateExpiryMinutes - 1
                    /\ last'.query.hmac = HmacSha256(ClientSecret, CanonicalQuery(last'.query)))
                   => /\ last'.exchange # "none"
                      /\ last'.resp # JsonError(400, "OAuth state expired")]_vars

\* C5 witness: a callback with a 9-minute-old state has connected the pending Lead
C5_Witness ==
  /\ last.op = "callback" /\ last.query.state \in issued
  /\ now - DecodeState(last.query.state).timestamp = StateExpiryMinutes - 1
  /\ last.exchange = "ok" /\ last.resp = NoResp
  /\ last.lead \in LeadIds /\ leads[last.lead].shopifyAccessToken # Null

\* C6 (as claimed): a state token is consumed exactly once and only issued
\* nonces are accepted: no callback passes the state and HMAC checks with a
\* nonce that an earlier accepted callback carried, or that GET /auth never issued
C6_ConsumedOnce ==
  [][(last'.op = "callback" /\ last'.exchange # "none")
       => LET nonce == DecodeState(last'.query.state).nonce
          IN  /\ nonce \notin consumed
              /\ \E tok \in issued : DecodeState(tok).nonce = nonce]_vars

\* C7 (as claimed): a state that decodes to JSON without a timestamp, or with a
\* timestamp in the future, is rejected as invalid with no token exchange
C7_MalformedRejected ==
  (/\ last.op = "callback" /\ last.query.code # Null /\ last.query.shop # Null
   /\ ~DecodeThrows(last.query.state) /\ ~DecodeState(last.query.state).isNull
   /\ \/ DecodeState(last.query.state).timestamp = NoDate
      \/ DecodeState(last.query.state).timestamp > now)
    => /\ last.exchange = "none"
       /\ last.resp.kind # "none" /\ last.resp.status # "connected"

\* C8 (as claimed): a callback that passed the checks and obtained the
\* credential is turned away only if the database refuses the write
C8_Persisted ==
  (last.op = "callback" /\ last.exchange = "ok" /\ last.resp # NoResp)
    => last.resp = ErrorRedirect("Lead save failed")

C11_FlagsClassified ==
  \A i \in 1..Len(orders) : orders[i] = PreSave(orders[i])

C13_FlagsConsistent ==
  \A i \in 1..Len(orders) :
    \A doc \in {orders[i], PreSave(orders[i])} :
      /\ doc.iossEligible => doc.euDestination
      /\ doc.vatRequired => doc.euDestination
      /\ doc.customerCountry \notin EuCountries
           => ~doc.euDestination /\ ~doc.iossEligible /\ ~doc.vatRequired

\* C13 witness: an order to a member state and an order to a destination
\* outside the bloc are both persisted
C13_Witness ==
  /\ \E i \in 1..Len(orders) : orders[i].customerCountry \in EuCountries
  /\ \E i \in 1..Len(orders) :
       orders[i].customerCountry \notin EuCountries /\ orders[i].totalPrice > 0

\* C14 (as claimed): the creation-time floor incrementalSync requests is the
\* later of the Connection's last-sync watermark and the latest remote creation
\* time among its persisted Orders, and with no persisted Order the request
\* carries no floor and the limit of 100
C14_LaterOfBoth ==
  [][\A p \in Procs :
       (req[p].pc = "lastSync" /\ req'[p].pc = "fetching")
         => LET watermark == leads[req[p].lead].lastOrderSync
                latest    == LatestCreatedAt(orders, req[p].lead)
            IN  /\ latest = NoDate => req'[p].floor = NoDate /\ req'[p].limit = IncrementalLimit
                /\ req'[p].floor # NoDate
                     => req'[p].floor = IF watermark > latest THEN watermark ELSE latest]_vars

\* C15 (as claimed): when a sync has returned success and its statistics update
\* did not fail, the Connection's synced-order counter equals the number of its
\* persisted Orders and its last-sync watermark is the time of that sync, also
\* when the fetch returned no orders
C15_StatsCurrent ==
  (last.op \in {"sync", "initialSync"} /\ last.result.success /\ last.stats # "failed")
    => /\ leads[last.lead].totalOrdersSynced = CountDocuments(orders, last.lead)
       /\ leads[last.lead].lastOrderSync = now

\* C16: when the statistics update of a sync fails after its orders were
\* persisted (the count or the Lead update is refused), the step changes neither
\* the Order collection nor the Lead, every order of the batch stays stored, and
\* the sync returns success with the processed/created/updated counts of its
\* bulkWrite.
C16_BestEffortStats ==
  [][last'.stats = "failed"
       => /\ orders' = orders /\ leads' = leads
          /\ \E p \in Procs :
               /\ req[p].pc \in {"counting", "updating"} /\ req'[p] = IdleReq
               /\ last'.result = req[p].result
               /\ CountDocuments(orders', req[p].lead) >= req[p].result.created
          /\ last'.result.success /\ ~last'.result.thrown
          /\ last'.result.processed > 0
          /\ last'.result.processed = last'.result.created + last'.result.updated]_vars

\* C16 witness: a sync that created an order has returned success although its
\* Lead update was refused
C16_Witness ==
  /\ last.stats = "failed" /\ last.result.success /\ last.result.created > 0
  /\ CountDocuments(orders, last.lead) > 0
  /\ leads[last.lead].lastOrderSync = NoDate

\* C17: no sync ends in an exception: whatever fails while fetching or
\* persisting, the sync returns a SyncResult, with success = false and a
\* non-empty cause when it failed; the handshake that started it still redirects
\* with status=connected and the trigger answers 200, so no request is left
\* without an answer.
C17_NeverThrows ==
  (last.op \in {"sync", "initialSync"} /\ last.stats # "none")
    => /\ ~last.result.thrown
       /\ ~last.result.success
            => /\ last.result.error # ""
               /\ last.result.processed = 0 /\ last.result.created = 0 /\ last.result.updated = 0
       /\ last.op = "initialSync" => last.resp = ConnectedRedirect(last.lead)
       /\ last.op = "sync" => last.resp.kind = "json" /\ last.resp.code = 200

\* C17 witness: the initial sync of a handshake failed at the remote store and
\* the handshake redirected with status=connected
C17_Witness ==
  /\ last.op = "initialSync" /\ ~last.result.success /\ last.remoteStatus \in RemoteFailures
  /\ last.resp = ConnectedRedirect(last.lead)

\* C18 (as claimed): the cause a failed sync carries tells apart a remote answer
\* of 401/403 (AuthError), of 429 (RateLimitedError) and any other failure
\* (TransportError): answers of different classes never yield the same cause
C18_CauseDistinguishes ==
  LET class(status) == IF status \in {401, 403} THEN "AuthError"
                       ELSE IF status = 429 THEN "RateLimitedError" ELSE "TransportError"
  IN  last.remoteStatus \in RemoteFailures
        => \A other \in RemoteFailures :
             class(other) # class(last.remoteStatus) => last.result.error # FetchError(other)

\* C19 (as claimed): every sync that has started eventually ends, done or
\* failed, also when the remote store never answers the order request: a
\* bounded timeout then ends it as a failure
C19_Terminates ==
  \A p \in Procs : InSync(p) ~> ~InSync(p)

\* C20 (as claimed): a report file the user receives without a sample label in
\* the name it is saved under or in the message shown with it is computed from
\* the Connection's own persisted eligible Orders, and a file made of sample
\* data always carries the label
C20_DemoLabelled ==
  LET a == last.artifact
      labelled == a.saved \in {"SAMPLE_Report.csv", "VATpilot_Sample_Report.csv"}
  IN  a.data # "none"
        => /\ ~labelled => /\ a.data = "orders"
                           /\ a.orders # {} /\ a.orders = UserOrders(orders, last.lead)
           /\ a.data = "sample" => labelled

\* C21 (as claimed): the header row of the CSV either engine writes is exactly
\* Member State, VAT Rate, Taxable Amount (EUR), VAT Amount (EUR), and no row
\* carries an order count
C21_FourColumns ==
  \A report \in {calc.onDemand, calc.batch} :
    report.ran
      => /\ report.header = <<"Member State", "VAT Rate", "Taxable Amount (EUR)", "VAT Amount (EUR)">>
         /\ \A i \in 1..Len(report.rows) : Len(report.rows[i]) = 4

\* C22 (as claimed): the data rows of a report are in ascending order of
\* member-state code, one row per code
C22_RowsAscending ==
  \A report \in {calc.onDemand, calc.batch} :
    report.ran
      => \A i, j \in 1..Len(report.rows) :
           i < j => LocaleBefore(report.rows[i][1], report.rows[j][1])

\* C24 (as claimed): for orders that both engines take as eligible, the
\* on-demand engine and the batch generator report the same VAT amount for
\* each member state
C24_SameVat ==
  (/\ calc.onDemand.ran /\ calc.batch.ran
   /\ \A k \in 1..Len(calc.orders) :
        /\ calc.orders[k].destination \in EuCountries /\ calc.orders[k].origin \notin EuCountries
        /\ calc.orders[k].value >= 2200 /\ calc.orders[k].value <= 15000)
    => \A i \in 1..Len(calc.onDemand.aggregates), j \in 1..Len(calc.batch.aggregates) :
         calc.onDemand.aggregates[i].memberState = calc.batch.aggregates[j].memberState
           => calc.onDemand.aggregates[i].vatAmount = calc.batch.aggregates[j].vatAmount

Credentials == {AccessTokenOf(s) : s \in Shops}

\* C25: no answer of a listing or read endpoint and no redirect of the handshake
\* carries a Connection's access credential, in its Lead documents or in any
\* other field; and the only requests that go to the remote store with a
\* credential are the callback, which holds the one just granted, and the sync
\* trigger, which asks the database for it explicitly.
C25_CredentialNotExposed ==
  /\ \A d \in last.body.leads : d.shopifyAccessToken = Null
  /\ last.body.shop \notin Credentials
  /\ last.resp.message \notin Credentials
  /\ last.resp.status \notin Credentials
  /\ last.remoteStatus # 0 => last.op \in {"sync", "initialSync"}
  /\ \A p \in Procs : req[p].token # Null => req[p].op \in {"sync", "callback"}

\* C25 witness: the lead listing is answered while a Connection holds a
\* credential, and the document of that Connection is in the answer.
C25_Witness ==
  /\ last.op = "leads"
  /\ \E i \in LeadIds : /\ leads[i].shopifyAccessToken \in Credentials
                         /\ \E d \in last.body.leads : d.shopifyShopDomain = leads[i].shopifyShopDomain

\* C30: GET /shopify/orders/:leadId answers 'Shopify store not connected' only
\* for a lead that has no stored credential or no stored domain.
C30_ConnectedFetches ==
  (/\ last.op = "shopifyOrders"
   /\ last.resp.message = "Shopify store not connected")
    => (leads[last.lead].shopifyAccessToken = Null \/ leads[last.lead].shopifyShopDomain = Null)

\* C26: whenever the sync a trigger ran returned a SyncResult with success =
\* false, the trigger's answer does not report success.
C26_FailureReported ==
  (last.op = "sync" /\ last.stats # "none" /\ ~last.result.success) => ~last.resp.success

\* the fetched records that are in the collection, by remote identifier
Persisted(store, fetched) ==
  {o \in fetched : \E i \in 1..Len(store) : store[i].shopifyOrderId = o.id}

\* C27: when the bulk write of a sync fails on exactly one fetched record and
\* persists the others, the SyncResult of that run has processed equal to the
\* number of records fetched, created equal to the number of Orders the run
\* inserted and updated equal to the number it overwrote.
C27_CountsActual ==
  [][\A p \in Procs :
       (/\ req[p].pc = "persisting" /\ req'[p].pc = "idle"
        /\ Cardinality(req[p].fetched \ Persisted(orders', req[p].fetched)) = 1
        /\ Persisted(orders', req[p].fetched) # {})
         => /\ last'.result.processed = Cardinality(req[p].fetched)
            /\ last'.result.created = Len(orders') - Len(orders)
            /\ last'.result.updated = Cardinality(Persisted(orders, req[p].fetched))]_vars

C28_OwnershipKept ==
  [][\A p \in Procs :
       (req[p].pc = "persisting" /\ req'[p].pc # "persisting")
         => /\ \A i \in 1..Len(orders) :
                 orders[i].shopId # req[p].lead => orders'[i].shopId = orders[i].shopId
            /\ \A b \in DOMAIN leads :
                 b # req[p].lead => CountDocuments(orders', b) = CountDocuments(orders, b)]_vars
====
